---- MODULE Spec2Model ----
(***************************************************************************)
(* dogwater (lib/index.js): a hapi plugin that collects Waterline adapters, *)
(* connections, model definitions and defaults from every registration on   *)
(* one host root, initializes the ORM once the host starts and tears it     *)
(* down when the host stops.                                                *)
(*                                                                          *)
(* JavaScript values are modelled as tuples: Undefined is <<>>, a primitive *)
(* is a 1-tuple holding its source text (<<"false">>, <<"safe">>), and an   *)
(* object definition supplied by registration number n at position i of its *)
(* fragment is the 2-tuple <<n, i>> (two fragments never share an object).  *)
(* A JavaScript object used as a map is the sequence of its own properties  *)
(* [k, v] in the order Object.keys enumerates them.  An optional array      *)
(* (state.models, options.models) is boxed: Undefined or <<array>>.         *)
(***************************************************************************)
EXTENDS Integers, Sequences, FiniteSets, TLC

\* Bounds of the model.
MaxCalls == 2       \* registrations (plugin register + server.dogwater) per run
MaxEntries == 2     \* entries one registration supplies, over all its options
MaxStarts == 2      \* host start/stop cycles per run

\* The host root and a plugin scope (realm) registered on it.
Root == "root"
Scopes == {"root", "p1"}

\* Names the registrations draw from.  "1" is a canonical array index, which
\* Object.keys enumerates before every other key.
AdapterNames == {"disk"}
ConnectionNames == {"main"}
ModelIds == {"user", "1"}
DefaultKeys == {"migrate"}
DefaultValues == {<<"false">>, <<"0">>, <<"safe">>}
TeardownOptions == {"undefined", "true", "false"}

Undefined == <<>>

\* ToBoolean of a value: undefined, false, 0, "" and null are falsy.
Falsy == {<<"false">>, <<"0">>, <<"">>, <<"null">>}
Truthy(v) == v # Undefined /\ (Len(v) # 1 \/ v \notin Falsy)

\* a || b on an optional (boxed) array or object
OrElse(box, dflt) == IF box = Undefined THEN dflt ELSE box[1]

------------------------------------------------------------------------------
\* JavaScript objects as ordered maps.

\* Canonical array-index keys and their numeric value.
IndexKeys == {"1", "2"}
IndexOf(k) == IF k = "1" THEN 1 ELSE 2

\* Object.keys(obj)
ObjectKeys(obj) == [i \in 1..Len(obj) |-> obj[i].k]

HasOwn(obj, k) == \E i \in 1..Len(obj) : obj[i].k = k

\* obj[k] (the names drawn here are not properties of Object.prototype)
JsGet(obj, k) ==
    IF HasOwn(obj, k)
    THEN obj[CHOOSE i \in 1..Len(obj) : obj[i].k = k].v
    ELSE Undefined

\* Where a new key k goes in the enumeration order: array-index keys come
\* first, ascending; every other key is appended.
InsertAt(obj, k) ==
    IF k \in IndexKeys
    THEN Cardinality({i \in 1..Len(obj) :
                        obj[i].k \in IndexKeys /\ IndexOf(obj[i].k) < IndexOf(k)})
    ELSE Len(obj)

\* obj[k] = v
JsSet(obj, k, v) ==
    IF HasOwn(obj, k)
    THEN [i \in 1..Len(obj) |-> IF obj[i].k = k THEN [k |-> k, v |-> v] ELSE obj[i]]
    ELSE LET p == InsertAt(obj, k)
         IN  SubSeq(obj, 1, p) \o <<[k |-> k, v |-> v]>> \o SubSeq(obj, p + 1, Len(obj))

\* The object literal a caller writes: its properties in the order written,
\* enumerated the way Object.keys does.
RECURSIVE ObjectOf(_, _)
ObjectOf(entries, i) ==
    IF i = 0 THEN <<>>
    ELSE JsSet(ObjectOf(entries, i - 1), entries[i].k, entries[i].v)

------------------------------------------------------------------------------
VARIABLES
    setup,        \* rootState.setup
    hooks,        \* times the decorations and the two server.ext handlers were installed
    collector,    \* rootState.collector
    realmModels,  \* realm.plugins.dogwater.models of every scope (boxed)
    waterline,    \* the ORM instance: collections (boxed), the loadCollection calls,
                  \* the initialize/teardown calls, the number of loadCollection
                  \* calls made before the last initialize, and its config
    host,         \* the host's phase, its start count and the continuations called
    calls,        \* registrations made so far
    last,         \* the last operation, whether its config was a bare array, and
                  \* the error it ended with
    hist          \* history: what the successful registrations supplied, in order,
                  \* and who supplied it; the identities handed to the ORM; the
                  \* ORM calls that have signalled an error

vars == <<setup, hooks, collector, realmModels, waterline, host, calls, last, hist>>

------------------------------------------------------------------------------
\* Waterline's version, as semverSplit returns it: every part is a string.
Str(s) == [t |-> "string", s |-> s]
Num(n) == [t |-> "number", n |-> n]
semverSplit(parts) == [MAJOR |-> Str(parts[1]), MINOR |-> Str(parts[2]), PATCH |-> Str(parts[3])]
WaterlineVersion == semverSplit(<<"0", "13", "0">>)

\* a === b
StrictEquals(a, b) == a.t = b.t /\ (IF a.t = "number" THEN a.n = b.n ELSE a.s = b.s)

\* The property of the collector that holds the connections: "datastores"
\* when the version test of register passes (MINOR >= 13 coerces and holds).
ConnectionsProperty ==
    IF StrictEquals(WaterlineVersion.MAJOR, Num(0)) THEN "datastores" ELSE "connections"

\* rootState.collector as register first creates it
NewCollector ==
    [adapters |-> <<>>, connections |-> <<>>, models |-> <<>>, defaults |-> <<>>,
     teardownOnStop |-> "null", connectionsAt |-> ConnectionsProperty]

------------------------------------------------------------------------------
\* keys.forEach((k) => { Hoek.assert(!obj[k], ...); obj[k] = entries[k]; }):
\* the first key already holding a truthy value throws, and what was
\* inserted before it stays.
\* Faulty variant of AssertEach: asserts, but inserts nothing.
AssertEachDrop(obj, entries, i) ==
    [obj |-> obj, ok |-> \A j \in 1..Len(entries) : ~Truthy(JsGet(obj, entries[j].k))]

\* Faulty variant of AssertEach: inserts without asserting.
AssertEachOverwrite(obj, entries, i) ==
    [obj |-> ObjectOf(obj \o entries, Len(obj) + Len(entries)), ok |-> TRUE]

\* Faulty variant of AssertEach: all or nothing, a refused key undoes the
\* insertions made before it.
AssertEachAtomic(obj, entries, i) ==
    LET ok == /\ \A j \in 1..Len(entries) : ~Truthy(JsGet(obj, entries[j].k))
              /\ \A j, l \in 1..Len(entries) : entries[j].k = entries[l].k => j = l
    IN  [obj |-> IF ok THEN ObjectOf(obj \o entries, Len(obj) + Len(entries)) ELSE obj,
         ok |-> ok]

\* Faulty variant of AssertEach: every key is tested against the object as
\* it was before the loop.
AssertEachSnapshot(obj, entries, i) ==
    [obj |-> ObjectOf(obj \o entries, Len(obj) + Len(entries)),
     ok |-> \A j \in 1..Len(entries) : ~Truthy(JsGet(obj, entries[j].k))]

RECURSIVE AssertEach(_, _, _)
AssertEach(obj, entries, i) ==
    IF i > Len(entries) THEN [obj |-> obj, ok |-> TRUE]
    ELSE IF Truthy(JsGet(obj, entries[i].k)) THEN [obj |-> obj, ok |-> FALSE]
    ELSE AssertEach(JsSet(obj, entries[i].k, entries[i].v), entries, i + 1)

\* Array.isArray(config) ? { models: config } : config
\* Faulty variant of Coerce: a bare array is dropped instead of wrapped.
CoerceDrop(config) == [config EXCEPT !.array = Undefined]

Coerce(config) ==
    IF config.array # Undefined
    THEN [config EXCEPT !.array = Undefined, !.models = config.array]
    ELSE config

\* config.adapters || {}, config.connections || {}, config.models || []
ApplyEmpty(config) ==
    [adapters |-> OrElse(config.adapters, <<>>),
     connections |-> OrElse(config.connections, <<>>),
     models |-> OrElse(config.models, <<>>)]

\* config.models.map((model) => model.identity)
ModelIdsOf(models) == [i \in 1..Len(models) |-> models[i].identity]

\* collector.models[id] = config.models[index], over modelIds
ModelEntries(models) == [i \in 1..Len(models) |-> [k |-> models[i].identity, v |-> models[i].def]]

\* Faulty variant of Dogwater: the realm's models are tracked before the
\* models are collected, so also when a model is refused.
DogwaterTrackFirst(col, rm, this, config) ==
    LET c == ApplyEmpty(Coerce(config))
        a == AssertEach(col.adapters, c.adapters, 1)
        colA == [col EXCEPT !.adapters = a.obj]
        cn == AssertEach(colA.connections, c.connections, 1)
        colC == [colA EXCEPT !.connections = cn.obj]
        m == AssertEach(colC.models, ModelEntries(c.models), 1)
        colM == [colC EXCEPT !.models = m.obj]
        tracked == [rm EXCEPT ![this] = <<OrElse(rm[this], <<>>) \o ModelIdsOf(c.models)>>]
    IN  IF ~a.ok THEN [collector |-> colA, realmModels |-> rm, err |-> "AdapterRegistered"]
        ELSE IF ~cn.ok THEN [collector |-> colC, realmModels |-> rm, err |-> "ConnectionRegistered"]
        ELSE [collector |-> colM, realmModels |-> tracked,
              err |-> IF m.ok THEN "" ELSE "ModelRegistered"]

\* internals.dogwater, called on the scope `this` with `config`: the
\* collector of this.root and the realm's models afterwards, and the
\* assertion that threw ("" when none did).
Dogwater(col, rm, this, config) ==
    LET c == ApplyEmpty(Coerce(config))
        modelIds == ModelIdsOf(c.models)
        a == AssertEach(col.adapters, c.adapters, 1)
        colA == [col EXCEPT !.adapters = a.obj]
        cn == AssertEach(colA.connections, c.connections, 1)
        colC == [colA EXCEPT !.connections = cn.obj]
        m == AssertEach(colC.models, ModelEntries(c.models), 1)
        colM == [colC EXCEPT !.models = m.obj]
    IN  IF ~a.ok THEN [collector |-> colA, realmModels |-> rm, err |-> "AdapterRegistered"]
        ELSE IF col.connectionsAt # "connections" /\ c.connections # <<>>
             THEN [collector |-> colA, realmModels |-> rm, err |-> "TypeError"]
        ELSE IF ~cn.ok THEN [collector |-> colC, realmModels |-> rm, err |-> "ConnectionRegistered"]
        ELSE IF ~m.ok THEN [collector |-> colM, realmModels |-> rm, err |-> "ModelRegistered"]
        ELSE [collector |-> colM,
              realmModels |-> [rm EXCEPT ![this] = <<OrElse(rm[this], <<>>) \o modelIds>>],
              err |-> ""]

\* require(path): the module's export
Require(v) == <<0, 0>>

\* typeof v === 'string'
IsString(v) == Len(v) = 1

\* internals.registrationConfig: the options without defaults and
\* teardownOnStop, with every adapter given as a module name resolved.
RegistrationConfig(options) ==
    [array |-> Undefined,
     defaults |-> Undefined,
     teardownOnStop |-> "undefined",
     adapters |-> IF options.adapters = Undefined THEN Undefined
                  ELSE <<[i \in 1..Len(options.adapters[1]) |->
                           [k |-> options.adapters[1][i].k,
                            v |-> IF IsString(options.adapters[1][i].v)
                                  THEN Require(options.adapters[1][i].v)
                                  ELSE options.adapters[1][i].v]]>>,
     connections |-> options.connections,
     models |-> options.models]

\* Faulty variant of RegisterOptions: teardownOnStop may be given again.
RegisterOptionsReset(col, rm, options) ==
    LET d == AssertEach(col.defaults, OrElse(options.defaults, <<>>), 1)
        colD == [col EXCEPT !.defaults = d.obj]
        colT == IF options.teardownOnStop # "undefined"
                THEN [colD EXCEPT !.teardownOnStop = options.teardownOnStop] ELSE colD
    IN  IF ~d.ok THEN [collector |-> colD, realmModels |-> rm, err |-> "DefaultSet"]
        ELSE Dogwater(colT, rm, Root, RegistrationConfig(options))

\* exports.register from "Collect defaults" on: defaults, teardownOnStop,
\* then server.root.dogwater(config).
RegisterOptions(col, rm, options) ==
    LET d == AssertEach(col.defaults, OrElse(options.defaults, <<>>), 1)
        colD == [col EXCEPT !.defaults = d.obj]
        given == options.teardownOnStop # "undefined"
        colT == IF given THEN [colD EXCEPT !.teardownOnStop = options.teardownOnStop] ELSE colD
    IN  IF ~d.ok THEN [collector |-> colD, realmModels |-> rm, err |-> "DefaultSet"]
        ELSE IF given /\ colD.teardownOnStop # "null"
             THEN [collector |-> colD, realmModels |-> rm, err |-> "TeardownOnce"]
        ELSE Dogwater(colT, rm, Root, RegistrationConfig(options))

------------------------------------------------------------------------------
\* The ORM engine (Waterline), as this code uses it.

\* waterline.collections once initialize has completed: one collection per
\* loaded definition, keyed by identity.
Collection(id) == <<"collection", id>>

RECURSIVE CollectionsOf(_, _)
CollectionsOf(loaded, i) ==
    IF i = 0 THEN <<>>
    ELSE JsSet(CollectionsOf(loaded, i - 1), loaded[i], Collection(loaded[i]))

\* Faulty variant of Initialize: waterline.initialize is called before the
\* models are handed over.
InitializeFirst(w, col) ==
    [w EXCEPT !.initCalls = @ + 1,
              !.initAfter = Len(w.loaded),
              !.config = <<[adapters |-> "collector.adapters",
                            connections |-> "collector.connections",
                            defaults |-> "collector.defaults"]>>,
              !.loaded = @ \o ObjectKeys(col.models)]

\* internals.initialize up to the call of waterline.initialize(config, next)
Initialize(w, col) ==
    LET handed == [w EXCEPT !.loaded = @ \o ObjectKeys(col.models)]
    IN  [handed EXCEPT
            !.initCalls = @ + 1,
            !.initAfter = Len(handed.loaded),
            !.config = <<[adapters |-> "collector.adapters",
                          connections |-> IF col.connectionsAt = "connections"
                                          THEN "collector.connections" ELSE "undefined",
                          defaults |-> "collector.defaults"]>>]

\* Faulty variant of StopTearsDown: tears down only when told to.
StopTearsDownIfTrue(col) == col.teardownOnStop = "true"

\* internals.stop: does it call waterline.teardown?
StopTearsDown(col) == ~(col.teardownOnStop = "false")

------------------------------------------------------------------------------
\* The collections accessors.

Server(s) == [realm |-> s]
Request(r) == [server |-> Server(Root), route |-> [realm |-> r]]

\* Faulty variant of CollectionsIn: the realm is not looked at.
CollectionsInRoot(realm, all) ==
    IF waterline.collections = Undefined THEN <<>>
    ELSE IF all THEN waterline.collections[1]
    ELSE LET models == OrElse(realmModels[Root], <<>>)
             Loop[i \in 0..Len(models)] ==
                 IF i = 0 THEN <<>>
                 ELSE JsSet(Loop[i - 1], models[i], JsGet(waterline.collections[1], models[i]))
         IN  Loop[Len(models)]

\* Faulty variant of CollectionsIn: no test that the ORM has collections.
CollectionsInUnguarded(realm, all) ==
    LET collections == OrElse(waterline.collections, <<>>)
        models == OrElse(realmModels[realm], <<>>)
        Loop[i \in 0..Len(models)] ==
            IF i = 0 THEN <<>>
            ELSE JsSet(Loop[i - 1], models[i], JsGet(collections, models[i]))
    IN  IF all THEN collections ELSE Loop[Len(models)]

\* The function internals.collections returns, called with the realm that
\* realmPath reaches from `this`.
CollectionsIn(realm, all) ==
    IF waterline.collections = Undefined THEN <<>>
    ELSE IF all THEN waterline.collections[1]
    ELSE LET models == OrElse(realmModels[realm], <<>>)
             Loop[i \in 0..Len(models)] ==
                 IF i = 0 THEN <<>>
                 ELSE JsSet(Loop[i - 1], models[i], JsGet(waterline.collections[1], models[i]))
         IN  Loop[Len(models)]

\* server.collections(all) on the server of scope s
ServerCollections(s, all) == CollectionsIn(Server(s).realm, all)

\* request.collections(all) on a request whose route belongs to realm r
RequestCollections(r, all) == CollectionsIn(Request(r).route.realm, all)

------------------------------------------------------------------------------
\* The inputs the registrations are drawn from (all valid under the Joi
\* schemas): each names the keys a fragment supplies; the definitions
\* are made when the call is (InputOf).

SeqsUpTo(S, n) == UNION {[1..m -> S] : m \in 0..n}
DistinctKeys(q) == \A i, j \in 1..Len(q) : i # j => q[i].k # q[j].k
Boxes(S) == {Undefined} \cup {<<x>> : x \in S}

DefaultsShapes ==
    {q \in SeqsUpTo([k : DefaultKeys, v : DefaultValues], MaxEntries) : q # <<>> /\ DistinctKeys(q)}
AdapterShapes(kinds) ==
    {q \in SeqsUpTo([k : AdapterNames, str : kinds], MaxEntries) : q # <<>> /\ DistinctKeys(q)}
ConnectionShapes ==
    {q \in SeqsUpTo([k : ConnectionNames], MaxEntries) : q # <<>> /\ DistinctKeys(q)}
ModelLists == SeqsUpTo(ModelIds, MaxEntries)

Size(shape) ==
    Len(OrElse(shape.array, <<>>)) + Len(OrElse(shape.defaults, <<>>))
    + (IF shape.teardownOnStop = "undefined" THEN 0 ELSE 1)
    + Len(OrElse(shape.adapters, <<>>)) + Len(OrElse(shape.connections, <<>>))
    + Len(OrElse(shape.models, <<>>))

\* A module name for an adapter, and the default 0, are drawn only in
\* registrations that supply nothing else.
Exotic(o) ==
    \/ o.adapters # Undefined /\ \E i \in 1..Len(o.adapters[1]) : o.adapters[1][i].str
    \/ o.defaults # Undefined /\ \E i \in 1..Len(o.defaults[1]) : o.defaults[1][i].v = <<"0">>

\* options of a plugin registration (Schema.plugin)
PluginShapes ==
    {o \in [array : {Undefined}, defaults : Boxes(DefaultsShapes),
            teardownOnStop : TeardownOptions,
            adapters : Boxes(AdapterShapes(BOOLEAN)),
            connections : Boxes(ConnectionShapes),
            models : Boxes(ModelLists \ {<<>>})] :
        Size(o) <= MaxEntries /\ (Exotic(o) => Size(o) = 1)}

\* config of a server.dogwater call (Schema.dogwater): a bare array of
\* models, or an object (models: [] is drawn only alone)
DogwaterShapes ==
    {o \in [array : Boxes(ModelLists), defaults : {Undefined},
            teardownOnStop : {"undefined"},
            adapters : Boxes(AdapterShapes({FALSE})),
            connections : Boxes(ConnectionShapes), models : Boxes(ModelLists)] :
        /\ Size(o) <= MaxEntries
        /\ o.models = <<<<>>>> => o.adapters = Undefined /\ o.connections = Undefined
        /\ o.array # Undefined =>
             o.adapters = Undefined /\ o.connections = Undefined /\ o.models = Undefined}

\* The registrations made while the host's lifecycle runs supply models and
\* teardownOnStop, the options the lifecycle and the accessors read, and
\* server.dogwater is given the object form.
OnlyModels(shape) ==
    shape.defaults = Undefined /\ shape.adapters = Undefined /\ shape.connections = Undefined
HostPluginShapes == {o \in PluginShapes : OnlyModels(o)}
HostDogwaterShapes == {o \in DogwaterShapes : OnlyModels(o) /\ o.array = Undefined}

ModelsOf(n, list) == [i \in 1..Len(list) |-> [identity |-> list[i], def |-> <<n, i>>]]

\* The value registration n passes for a shape: fresh definitions <<n, i>>,
\* or a module name where the shape says so.
InputOf(n, shape) ==
    [array |-> IF shape.array = Undefined THEN Undefined
               ELSE <<ModelsOf(n, shape.array[1])>>,
     defaults |-> IF shape.defaults = Undefined THEN Undefined
                  ELSE <<ObjectOf(shape.defaults[1], Len(shape.defaults[1]))>>,
     teardownOnStop |-> shape.teardownOnStop,
     adapters |-> IF shape.adapters = Undefined THEN Undefined
                  ELSE LET q == shape.adapters[1]
                       IN  <<ObjectOf([i \in 1..Len(q) |->
                                        [k |-> q[i].k,
                                         v |-> IF q[i].str THEN <<"sails-disk">> ELSE <<n, i>>]],
                                      Len(q))>>,
     connections |-> IF shape.connections = Undefined THEN Undefined
                     ELSE LET q == shape.connections[1]
                          IN  <<ObjectOf([i \in 1..Len(q) |-> [k |-> q[i].k, v |-> <<n, i>>]],
                                         Len(q))>>,
     models |-> IF shape.models = Undefined THEN Undefined
                ELSE <<ModelsOf(n, shape.models[1])>>]

------------------------------------------------------------------------------
Init ==
    /\ setup = FALSE
    /\ hooks = 0
    /\ collector = Undefined
    /\ realmModels = [s \in Scopes |-> Undefined]
    /\ waterline = [collections |-> Undefined, loaded |-> <<>>, initCalls |-> 0,
                    initAfter |-> 0, teardownCalls |-> 0, config |-> Undefined]
    /\ host = [phase |-> "stopped", starts |-> 0, preStartNext |-> 0, postStopNext |-> 0]
    /\ calls = 0
    /\ last = [op |-> "none", array |-> FALSE, err |-> ""]
    /\ hist = [adapters |-> <<>>, connections |-> <<>>, models |-> <<>>, clean |-> TRUE,
               dogwater |-> [s \in Scopes |-> <<>>], plugin |-> [s \in Scopes |-> <<>>],
               handed |-> {}, ready |-> {}, failed |-> {}]

\* What a registration adds to the history when it succeeded: its entries
\* and the identities its scope registered (through server.dogwater or
\* through the plugin's options).
Record(s, op, config, err) ==
    LET models == IF config.array # Undefined THEN config.array[1]
                  ELSE OrElse(config.models, <<>>)
        ids == [i \in 1..Len(models) |-> models[i].identity]
        h == [hist EXCEPT !.adapters = @ \o OrElse(config.adapters, <<>>),
                          !.connections = @ \o OrElse(config.connections, <<>>),
                          !.models = @ \o [i \in 1..Len(models) |->
                                             [k |-> models[i].identity, v |-> models[i].def]]]
    IN  IF err # "" THEN [hist EXCEPT !.clean = FALSE]
        ELSE IF op = "register" THEN [h EXCEPT !.plugin[s] = @ \o ids]
        ELSE [h EXCEPT !.dogwater[s] = @ \o ids]

\* Faulty variant of Installed: every registration installs.
InstalledAlways(isSetup, n) == n + 1

\* if (!rootState.setup) { ...decorate, server.ext... }: the times the ORM
\* instance, the accessors and the two handlers have been installed, after a
\* registration
Installed(isSetup, n) == IF isSetup THEN n ELSE n + 1

\* The host calls every onPreStart handler that was installed.
RECURSIVE InitializeEach(_, _, _)
InitializeEach(n, w, col) ==
    IF n = 0 THEN w ELSE Initialize(InitializeEach(n - 1, w, col), col)

\* exports.register with the options of `shape`, from the current state
RegisterResult(shape) ==
    RegisterOptions(IF setup THEN collector[1] ELSE NewCollector, realmModels,
                    InputOf(calls + 1, shape))

\* internals.dogwater on the server of scope s with the config of `shape`
DogwaterResult(s, shape) ==
    Dogwater(collector[1], realmModels, s, InputOf(calls + 1, shape))

\* server.register(Dogwater, options) in scope s: exports.register
Register(s, shape) ==
    /\ calls < MaxCalls
    /\ LET r == RegisterResult(shape)
       IN  /\ collector' = <<r.collector>>
           /\ realmModels' = r.realmModels
           /\ last' = [op |-> "register", array |-> FALSE, err |-> r.err]
           /\ hist' = Record(s, "register", RegistrationConfig(InputOf(calls + 1, shape)), r.err)
    /\ setup' = TRUE
    /\ hooks' = Installed(setup, hooks)
    /\ calls' = calls + 1
    /\ UNCHANGED <<waterline, host>>

\* server.dogwater(config) on the server of scope s: internals.dogwater
DogwaterCall(s, shape) ==
    /\ setup
    /\ calls < MaxCalls
    /\ LET r == DogwaterResult(s, shape)
       IN  /\ collector' = <<r.collector>>
           /\ realmModels' = r.realmModels
           /\ last' = [op |-> "dogwater", array |-> shape.array # Undefined, err |-> r.err]
           /\ hist' = Record(s, "dogwater", InputOf(calls + 1, shape), r.err)
    /\ calls' = calls + 1
    /\ UNCHANGED <<setup, hooks, waterline, host>>

\* The host starts: its onPreStart handler internals.initialize runs.
PreStart ==
    /\ setup
    /\ host.phase = "stopped"
    /\ host.starts < MaxStarts
    /\ waterline' = InitializeEach(hooks, waterline, collector[1])
    /\ host' = [host EXCEPT !.phase = "initializing", !.starts = @ + 1]
    /\ last' = [op |-> "initialize", array |-> FALSE, err |-> ""]
    /\ hist' = [hist EXCEPT !.handed = {collector[1].models[i].k : i \in 1..Len(collector[1].models)}]
    /\ UNCHANGED <<setup, hooks, collector, realmModels, calls>>

\* The ORM engine completes initialize and calls next, with an error or not.
Initialized(ok) ==
    /\ host.phase = "initializing"
    /\ waterline' = IF ok
                    THEN [waterline EXCEPT
                            !.collections = <<CollectionsOf(waterline.loaded, Len(waterline.loaded))>>]
                    ELSE waterline
    /\ host' = [host EXCEPT !.phase = IF ok THEN "started" ELSE "invalid",
                            !.preStartNext = @ + 1]
    /\ last' = [op |-> "initialized", array |-> FALSE,
                err |-> IF ok THEN "" ELSE "InitializationError"]
    /\ hist' = IF ok THEN [hist EXCEPT !.ready = hist.handed]
               ELSE [hist EXCEPT !.failed = @ \cup {"initialize"}]
    /\ UNCHANGED <<setup, hooks, collector, realmModels, calls>>

\* The host has stopped: its onPostStop handler internals.stop runs.
PostStop ==
    /\ host.phase = "started"
    /\ IF StopTearsDown(collector[1])
       THEN /\ waterline' = [waterline EXCEPT !.teardownCalls = @ + 1]
            /\ host' = [host EXCEPT !.phase = "tearingDown"]
       ELSE /\ waterline' = waterline
            /\ host' = [host EXCEPT !.phase = "stopped", !.postStopNext = @ + 1]
    /\ last' = [op |-> "stop", array |-> FALSE, err |-> ""]
    /\ UNCHANGED <<setup, hooks, collector, realmModels, calls, hist>>

\* The ORM engine completes teardown and calls next, with an error or not.
TornDown(ok) ==
    /\ host.phase = "tearingDown"
    /\ host' = [host EXCEPT !.phase = "stopped", !.postStopNext = @ + 1]
    /\ last' = [op |-> "torndown", array |-> FALSE,
                err |-> IF ok THEN "" ELSE "TeardownError"]
    /\ hist' = IF ok THEN hist ELSE [hist EXCEPT !.failed = @ \cup {"teardown"}]
    /\ UNCHANGED <<setup, hooks, collector, realmModels, waterline, calls>>

\* The plugin on a host that starts and stops.
Next ==
    \/ \E s \in Scopes, shape \in HostPluginShapes : Register(s, shape)
    \/ \E s \in Scopes, shape \in HostDogwaterShapes : DogwaterCall(s, shape)
    \/ PreStart
    \/ \E ok \in BOOLEAN : Initialized(ok)
    \/ PostStop
    \/ \E ok \in BOOLEAN : TornDown(ok)

Spec == Init /\ [][Next]_vars

\* The registration phase alone, over every option: the plugin registered on
\* the root and server.dogwater called in the plugin scope (the scope changes
\* nothing but the record the identities are appended to, and the root's
\* record is appended to by the plugin registrations).
NextMerge ==
    \/ \E shape \in PluginShapes : Register(Root, shape)
    \/ \E shape \in DogwaterShapes : DogwaterCall("p1", shape)

SpecMerge == Init /\ [][NextMerge]_vars

------------------------------------------------------------------------------
\* Properties.  A property of "every registration" is stated over every
\* registration that can come next in a state (Open), through the result the
\* handler computes for it.

Open == setup /\ calls < MaxCalls

Entries(obj) == {obj[i] : i \in 1..Len(obj)}
Keys(obj) == {obj[i].k : i \in 1..Len(obj)}
PositionOf(obj, k) == CHOOSE i \in 1..Len(obj) : obj[i].k = k
Maps == {"adapters", "connections", "models"}

KeyBefore(registered, j, k) ==
    IF j \in IndexKeys
    THEN k \notin IndexKeys \/ IndexOf(j) < IndexOf(k)
    ELSE k \notin IndexKeys /\ PositionOf(registered, j) < PositionOf(registered, k)

SuppliedKeys(shape, x) ==
    IF x = "models"
    THEN LET list == IF shape.array # Undefined THEN shape.array[1]
                     ELSE OrElse(shape.models, <<>>)
         IN  {list[i] : i \in 1..Len(list)}
    ELSE Keys(OrElse(shape[x], <<>>))

\* the registration supplies a key an earlier successful registration put in
\* the collector
Repeats(shape) == \E x \in Maps : SuppliedKeys(shape, x) \cap Keys(hist[x]) # {}

\* every entry of the earlier successful registrations is still in col
Intact(col) == \A x \in Maps : \A e \in Entries(hist[x]) : JsGet(col[x], e.k) = e.v

\* DuplicateRegistrationError (the defaults follow the same duplicate-key
\* policy) and AlreadySetError
DuplicateErrors ==
    {"DefaultSet", "AdapterRegistered", "ConnectionRegistered", "ModelRegistered"}
AlreadySetError == "TeardownOnce"

\* C2 as the spec states it: a registration that supplies an adapter name,
\* a connection name or a model identity of an earlier successful
\* registration fails with a duplicate-registration error, and the earlier
\* entries keep their definitions.
C2_DuplicateRejected ==
    Open =>
        /\ \A shape \in PluginShapes : Repeats(shape) =>
               LET r == RegisterResult(shape)
               IN  r.err \in DuplicateErrors /\ Intact(r.collector)
        /\ \A s \in Scopes, shape \in DogwaterShapes : Repeats(shape) =>
               LET r == DogwaterResult(s, shape)
               IN  r.err \in DuplicateErrors /\ Intact(r.collector)

\* the plugin registration gives teardownOnStop when the collector has one
GivesTeardownAgain(shape) ==
    shape.teardownOnStop # "undefined" /\ collector[1].teardownOnStop # "null"

\* C2 (amended): a registration that supplies an adapter name, a connection
\* name or a model identity of an earlier successful registration fails, and
\* the earlier entries keep their definitions.  It fails with a
\* duplicate-registration error, except that a plugin registration whose
\* options also give teardownOnStop when the collector's teardownOnStop is
\* already set fails with the already-set error (or with the duplicate error
\* of its defaults), raised before its adapters, connections and models are
\* looked at.
C2_DuplicateFails ==
    Open =>
        /\ \A shape \in PluginShapes : Repeats(shape) =>
               LET r == RegisterResult(shape)
               IN  /\ r.err \in DuplicateErrors \cup {AlreadySetError}
                   /\ GivesTeardownAgain(shape) => r.err \in {AlreadySetError, "DefaultSet"}
                   /\ ~GivesTeardownAgain(shape) => r.err \in DuplicateErrors
                   /\ Intact(r.collector)
        /\ \A s \in Scopes, shape \in DogwaterShapes : Repeats(shape) =>
               LET r == DogwaterResult(s, shape)
               IN  /\ r.err \in DuplicateErrors \ {"DefaultSet"}
                   /\ Intact(r.collector)

\* an adapter name registered before made the last registration fail
C2_Witness ==
    /\ last.err = "AdapterRegistered"
    /\ Len(hist.adapters) = 1
    /\ Intact(collector[1])
    /\ collector[1].adapters = hist.adapters

\* the defaults a plugin registration gives
DefaultsOf(shape) == OrElse(shape.defaults, <<>>)

\* C4 as the spec states it: once teardownOnStop is set, every later
\* registration that gives it fails with the already-set error; the
\* collector keeps the first value given; a registration that does not give
\* it never changes it.
C4_TeardownOnce ==
    Open =>
        LET flag == collector[1].teardownOnStop
        IN  /\ \A shape \in PluginShapes :
                   LET r == RegisterResult(shape)
                   IN  /\ GivesTeardownAgain(shape) => r.err = AlreadySetError
                       /\ flag # "null" => r.collector.teardownOnStop = flag
                       /\ shape.teardownOnStop = "undefined" => r.collector.teardownOnStop = flag
            /\ \A s \in Scopes, shape \in DogwaterShapes :
                   DogwaterResult(s, shape).collector.teardownOnStop = flag

\* a default the registration gives is set, to a truthy value, in the collector
DefaultTaken(shape) ==
    \E i \in 1..Len(DefaultsOf(shape)) :
        Truthy(JsGet(collector[1].defaults, DefaultsOf(shape)[i].k))

\* C4 (amended): once the collector's teardownOnStop is set, every later
\* registration that gives it, even with the same value, fails: with the
\* already-set error, unless one of its defaults is already set, which fails
\* it first with that default's error.  The collector keeps the value it was
\* first set to, and a registration that does not give teardownOnStop never
\* changes it.
C4_TeardownSetOnce ==
    /\ [](Open =>
        LET flag == collector[1].teardownOnStop
        IN  /\ \A shape \in PluginShapes :
                   LET r == RegisterResult(shape)
                   IN  /\ GivesTeardownAgain(shape) =>
                              r.err = IF DefaultTaken(shape) THEN "DefaultSet"
                                      ELSE AlreadySetError
                       /\ flag # "null" => r.collector.teardownOnStop = flag
                       /\ shape.teardownOnStop = "undefined" => r.collector.teardownOnStop = flag
                       /\ flag = "null" /\ ~DefaultTaken(shape)
                              /\ shape.teardownOnStop # "undefined" =>
                              r.collector.teardownOnStop = shape.teardownOnStop)
    /\ [][last'.op = "dogwater" /\ calls' = calls + 1 =>
              collector'[1].teardownOnStop = collector[1].teardownOnStop]_vars

\* teardownOnStop was given a second time, and the first value stayed
C4_Witness ==
    /\ last.op = "register" /\ last.err = AlreadySetError
    /\ collector[1].teardownOnStop = "false"
    /\ calls = 2

\* C5: a defaults key that a registration has set, whatever the value, makes
\* a later registration whose defaults have the key fail with the duplicate
\* error, and the collector's default keeps its first value.
C5_DefaultOnce ==
    Open =>
        \A shape \in PluginShapes :
            (\E i \in 1..Len(DefaultsOf(shape)) :
                 HasOwn(collector[1].defaults, DefaultsOf(shape)[i].k)) =>
                LET r == RegisterResult(shape)
                IN  /\ r.err = "DefaultSet"
                    /\ \A k \in Keys(collector[1].defaults) :
                           JsGet(r.collector.defaults, k) = JsGet(collector[1].defaults, k)

NoOptions ==
    [array |-> Undefined, defaults |-> Undefined, teardownOnStop |-> "undefined",
     adapters |-> Undefined, connections |-> Undefined, models |-> Undefined]
BareList(list) == [NoOptions EXCEPT !.array = <<list>>]
ModelsObject(list) == [NoOptions EXCEPT !.models = <<list>>]

\* C9: from every state, server.dogwater called in a scope with a bare list
\* of models leaves the collector and the scope's record as the call with the
\* object that has this list as its models and nothing else does, or fails
\* with the same error.
C9_BareListAsModels ==
    Open =>
        \A s \in Scopes, list \in ModelLists :
            DogwaterResult(s, BareList(list)) = DogwaterResult(s, ModelsObject(list))

\* a bare list was merged in a scope that had a record, after another merge
C9_Witness ==
    /\ last.op = "dogwater" /\ last.array /\ last.err = ""
    /\ calls = 2
    /\ realmModels["p1"] # Undefined /\ Len(realmModels["p1"][1]) = 2
    /\ Len(collector[1].models) = 2

\* the identities a scope registered: through server.dogwater, and through
\* the options of the plugin it registered
RegisteredBy(s) ==
    {hist.dogwater[s][i] : i \in 1..Len(hist.dogwater[s])}
        \cup {hist.plugin[s][i] : i \in 1..Len(hist.plugin[s])}

\* C3 as the spec states it: once the ORM has its collections, the scoped
\* accessor of a scope returns exactly the identities the scope registered,
\* through the plugin's options or through server.dogwater, each mapped to
\* its collection; the accessor of a request of the realm returns the same.
C3_ScopedExactly ==
    waterline.collections # Undefined =>
        \A s \in Scopes :
            LET got == ServerCollections(s, FALSE)
            IN  /\ Keys(got) = RegisteredBy(s)
                /\ \A k \in Keys(got) : JsGet(got, k) = Collection(k)
                /\ RequestCollections(s, FALSE) = got

\* the identities in a scope's record: those the scope passed to
\* server.dogwater and, for the root, those of every plugin registration
RecordedFor(s) ==
    {hist.dogwater[s][i] : i \in 1..Len(hist.dogwater[s])}
        \cup (IF s = Root
              THEN UNION {{hist.plugin[t][i] : i \in 1..Len(hist.plugin[t])} : t \in Scopes}
              ELSE {})

\* C3 (amended): once the ORM has its collections, the scoped accessor of a
\* scope returns exactly the identities the scope passed to server.dogwater
\* and, in the root scope only, the identities given as models in the options
\* of every plugin registration, whichever scope registered the plugin.  An
\* identity that was in the collector when the initialization that produced
\* the collections began is mapped to its collection, an identity registered
\* later is mapped to undefined.  The accessor of a request of the realm
\* returns the same mapping.
C3_ScopedRecord ==
    waterline.collections # Undefined =>
        \A s \in Scopes :
            LET got == ServerCollections(s, FALSE)
            IN  /\ Keys(got) = RecordedFor(s)
                /\ \A k \in Keys(got) :
                       JsGet(got, k) = IF k \in hist.ready THEN Collection(k) ELSE Undefined
                /\ RequestCollections(s, FALSE) = got

\* initialized, with a model of a plugin registered in p1 and a model p1
\* passed to server.dogwater: the first in the root's mapping only
C3_Witness ==
    /\ host.phase = "started"
    /\ hist.plugin["p1"] = <<"user">> /\ hist.dogwater["p1"] = <<"1">>
    /\ ServerCollections("p1", FALSE) = <<[k |-> "1", v |-> Collection("1")]>>
    /\ ServerCollections(Root, FALSE) = <<[k |-> "user", v |-> Collection("user")]>>
    /\ RequestCollections("p1", FALSE) = ServerCollections("p1", FALSE)

\* C6: the post-stop handler invokes the ORM's teardown if and only if the
\* collector's teardownOnStop is not false (never set, or true); when it is
\* false the handler calls its continuation without invoking teardown.
C6_TeardownUnlessFalse ==
    [][host.phase = "started" /\ host'.phase # "started" =>
          LET flag == collector[1].teardownOnStop
              invoked == waterline'.teardownCalls = waterline.teardownCalls + 1
          IN  /\ invoked <=> flag # "false"
              /\ flag \in {"null", "true"} => invoked /\ host'.phase = "tearingDown"
              /\ flag = "false" =>
                     /\ waterline'.teardownCalls = waterline.teardownCalls
                     /\ host'.postStopNext = host.postStopNext + 1
                     /\ host'.phase = "stopped"]_vars

\* stopped with teardownOnStop false: continuation called, no teardown
C6_Witness ==
    /\ last.op = "stop" /\ host.phase = "stopped"
    /\ collector[1].teardownOnStop = "false"
    /\ waterline.teardownCalls = 0 /\ host.postStopNext = 1

\* C7: while the ORM has no collections, the accessor of every server and of
\* every request returns an empty mapping, for all collections and for the
\* realm's, whatever has been registered.
C7_EmptyBeforeCollections ==
    waterline.collections = Undefined =>
        \A s \in Scopes, all \in BOOLEAN :
            ServerCollections(s, all) = <<>> /\ RequestCollections(s, all) = <<>>

\* initializing, with models registered in both scopes
C7_Witness ==
    /\ host.phase = "initializing" /\ waterline.collections = Undefined
    /\ realmModels["p1"] # Undefined /\ Len(realmModels["p1"][1]) > 0
    /\ realmModels[Root] # Undefined /\ Len(realmModels[Root][1]) > 0
    /\ Len(waterline.loaded) = 2
    /\ ServerCollections("p1", FALSE) = <<>> /\ RequestCollections("p1", TRUE) = <<>>

\* C8: once the ORM has its collections, the accessor for all collections
\* returns a mapping that has every model identity of the collector as a key.
C8_AllRegistered ==
    waterline.collections # Undefined =>
        \A s \in Scopes : Keys(collector[1].models) \subseteq Keys(ServerCollections(s, TRUE))

\* C10: once the pre-start handler has begun initialization, no operation
\* changes the collector.
C10_CollectorFrozen ==
    [][host.starts > 0 => collector' = collector]_vars

\* the times the post-stop handler has run: each run calls its continuation
\* at once or is waiting for the ORM's teardown to call it
StopRuns == host.postStopNext + (IF host.phase = "tearingDown" THEN 1 ELSE 0)

\* C11: over the lifetime of a host root, whatever the registrations and the
\* host's starts and stops, no lifecycle state is entered again: the ORM's
\* initialize is invoked at most once, the stop handler runs at most once,
\* and it never runs before initialize.
C11_LifecycleOnce ==
    /\ waterline.initCalls <= 1
    /\ StopRuns <= 1
    /\ StopRuns > 0 => waterline.initCalls > 0

\* a scope's record, as a sequence
RecordOf(rm, s) == OrElse(rm[s], <<>>)
Elements(q) == {q[i] : i \in 1..Len(q)}
IsPrefix(p, q) == Len(p) <= Len(q) /\ SubSeq(q, 1, Len(p)) = p

\* C12: in every state and for every scope, the identities of the scope's
\* record are keys of the collector's models, no identity is twice in one
\* record or in the records of two scopes, and every step leaves each record
\* a prefix of what it becomes.
C12_ScopeRecords ==
    /\ [](setup =>
            /\ \A s \in Scopes :
                   LET rec == RecordOf(realmModels, s)
                   IN  /\ \A i \in 1..Len(rec) : HasOwn(collector[1].models, rec[i])
                       /\ \A i, j \in 1..Len(rec) : rec[i] = rec[j] => i = j
            /\ \A s, t \in Scopes : s # t =>
                   Elements(RecordOf(realmModels, s))
                       \cap Elements(RecordOf(realmModels, t)) = {})
    /\ [][\A s \in Scopes : IsPrefix(RecordOf(realmModels, s), RecordOf(realmModels', s))]_vars

\* the root's record appended to by a plugin registered in p1 and then by
\* server.dogwater on the root, while p1 has a record of its own
C12_Witness ==
    /\ calls = 2 /\ hist.clean
    /\ realmModels[Root] = <<<<"user", "1">>>>
    /\ hist.plugin["p1"] = <<"user">> /\ hist.dogwater[Root] = <<"1">>
    /\ Keys(collector[1].models) = {"user", "1"}

\* what the configuration object's properties refer to
ConfigOfCollector ==
    [adapters |-> "collector.adapters", connections |-> "collector.connections",
     defaults |-> "collector.defaults"]

\* C13: a run of the pre-start handler hands every model of the collector to
\* the ORM, one loadCollection per identity, none skipped and none repeated,
\* and calls the ORM's initialize once, after all of them, with one
\* configuration object whose adapters, connections and defaults are the
\* collector's maps.
C13_HandOver ==
    [][host'.starts = host.starts + 1 =>
          LET before == Len(waterline.loaded)
              after == Len(waterline'.loaded)
              new == SubSeq(waterline'.loaded, before + 1, after)
          IN  /\ IsPrefix(waterline.loaded, waterline'.loaded)
              /\ Elements(new) = Keys(collector[1].models)
              /\ Len(new) = Len(collector[1].models)
              /\ waterline'.initCalls = waterline.initCalls + 1
              /\ waterline'.initAfter = after
              /\ waterline'.config = <<ConfigOfCollector>>
              /\ collector' = collector]_vars

\* initializing with two models handed over, then initialize called
C13_Witness ==
    /\ host.phase = "initializing" /\ last.op = "initialize"
    /\ waterline.loaded = <<"1", "user">> /\ waterline.initAfter = 2
    /\ waterline.initCalls = 1
    /\ waterline.config = <<ConfigOfCollector>>
    /\ Keys(collector[1].models) = {"1", "user"}

\* the stages of a registration, in merge order, and the stage an error
\* belongs to
Stages == <<"defaults", "teardownOnStop", "adapters", "connections", "models">>
StageOf(x) == CHOOSE i \in 1..Len(Stages) : Stages[i] = x
FailedAt(err) ==
    CASE err = "DefaultSet" -> StageOf("defaults")
      [] err = AlreadySetError -> StageOf("teardownOnStop")
      [] err = "AdapterRegistered" -> StageOf("adapters")
      [] err = "ConnectionRegistered" -> StageOf("connections")
      [] err = "ModelRegistered" -> StageOf("models")

\* the entries a call supplies for a map, in the order they are merged
Supplied(input, x) ==
    IF x = "models"
    THEN LET models == IF input.array # Undefined THEN input.array[1]
                       ELSE OrElse(input.models, <<>>)
         IN  [i \in 1..Len(models) |-> [k |-> models[i].identity, v |-> models[i].def]]
    ELSE OrElse(input[x], <<>>)

\* the options of a plugin registration, its adapters resolved
Resolved(options) == [options EXCEPT !.adapters = RegistrationConfig(options).adapters]

\* col holds every entry of q, as supplied
Holds(col, x, q) == \A i \in 1..Len(q) : JsGet(col[x], q[i].k) = q[i].v

\* What a failed registration leaves: the maps merged before the failing one
\* hold all it supplied, teardownOnStop is as given when its stage was
\* passed, the failing map holds what it held plus the entries supplied
\* before the failing key, the maps after it are as they were, and so is
\* every scope's record.
LeftPartial(before, input, r) ==
    LET f == FailedAt(r.err)
    IN  /\ r.realmModels = realmModels
        /\ \A x \in {"defaults", "adapters", "connections", "models"} :
               LET q == Supplied(input, x)
               IN  /\ StageOf(x) < f => Holds(r.collector, x, q)
                   /\ StageOf(x) > f => r.collector[x] = before[x]
                   /\ StageOf(x) = f =>
                          \E n \in 1..Len(q) :
                              /\ Holds(r.collector, x, SubSeq(q, 1, n - 1))
                              /\ Keys(r.collector[x])
                                     = Keys(before[x]) \cup Keys(SubSeq(q, 1, n - 1))
                              /\ q[n].k \in Keys(r.collector[x])
                              /\ \A k \in Keys(before[x]) \ Keys(SubSeq(q, 1, n - 1)) :
                                     JsGet(r.collector[x], k) = JsGet(before[x], k)
        /\ r.collector.teardownOnStop =
               IF StageOf("teardownOnStop") < f /\ input.teardownOnStop # "undefined"
               THEN input.teardownOnStop ELSE before.teardownOnStop

\* the call supplies a key the collector has, an identity twice, or
\* teardownOnStop again: the calls that can fail
Clashes(shape) ==
    \/ \E x \in Maps : SuppliedKeys(shape, x) \cap Keys(collector[1][x]) # {}
    \/ Keys(DefaultsOf(shape)) \cap Keys(collector[1].defaults) # {}
    \/ GivesTeardownAgain(shape)
    \/ LET list == IF shape.array # Undefined THEN shape.array[1]
                   ELSE OrElse(shape.models, <<>>)
       IN  \E i, j \in 1..Len(list) : i < j /\ list[i] = list[j]

\* C14: a registration that fails is not rolled back: what it inserted
\* before the failing key, in the order defaults, teardownOnStop, adapters,
\* connections, models, stays in the collector, nothing after it is
\* inserted, and every scope's record is as it was before the call.
C14_NoRollback ==
    Open =>
        /\ \A shape \in PluginShapes : Clashes(shape) =>
               LET r == RegisterResult(shape)
               IN  r.err # "" =>
                       LeftPartial(collector[1], Resolved(InputOf(calls + 1, shape)), r)
        /\ \A s \in Scopes, shape \in DogwaterShapes : Clashes(shape) =>
               LET r == DogwaterResult(s, shape)
               IN  r.err # "" => LeftPartial(collector[1], InputOf(calls + 1, shape), r)

\* a plugin registration that set a default and teardownOnStop and then
\* failed on its adapter: both stay
C14_Witness ==
    /\ last.op = "register" /\ last.err = "AdapterRegistered" /\ calls = 2
    /\ collector[1].defaults = <<[k |-> "migrate", v |-> <<"safe">>]>>
    /\ collector[1].teardownOnStop = "true"
    /\ collector[1].adapters = <<[k |-> "disk", v |-> <<1, 1>>]>>
    /\ realmModels["p1"] = Undefined

\* a call that does not clash does not fail
NoClashNoFailure ==
    Open =>
        /\ \A shape \in PluginShapes : ~Clashes(shape) => RegisterResult(shape).err = ""
        /\ \A s \in Scopes, shape \in DogwaterShapes :
               ~Clashes(shape) => DogwaterResult(s, shape).err = ""

\* C15: an error of the ORM is passed on and never retried.  When initialize
\* signals one, the pre-start continuation is called with it, initialize is
\* never invoked again and the host never gets ready; when teardown signals
\* one, the post-stop continuation is called with it, once, and teardown is
\* never invoked again.
C15_FailureFinal ==
    [][/\ "initialize" \in hist'.failed \ hist.failed =>
              /\ host'.preStartNext = host.preStartNext + 1
              /\ last'.err = "InitializationError"
              /\ host'.phase # "started"
       /\ "teardown" \in hist'.failed \ hist.failed =>
              /\ host'.postStopNext = host.postStopNext + 1
              /\ last'.err = "TeardownError"
       /\ "initialize" \in hist.failed =>
              waterline'.initCalls = waterline.initCalls /\ host'.phase # "started"
       /\ "teardown" \in hist.failed =>
              waterline'.teardownCalls = waterline.teardownCalls]_vars

\* C15, within one run of a handler: the step in which the ORM signals an
\* error calls the handler's continuation once, with the error, and invokes
\* neither initialize nor teardown; after a failed initialize nothing is
\* invoked and the host is never ready.
NoRetryWithinRun ==
    [][/\ "initialize" \in hist'.failed \ hist.failed =>
              /\ host'.preStartNext = host.preStartNext + 1
              /\ last'.err = "InitializationError"
              /\ host'.phase # "started"
              /\ waterline' = waterline
       /\ "teardown" \in hist'.failed \ hist.failed =>
              /\ host'.postStopNext = host.postStopNext + 1
              /\ last'.err = "TeardownError"
              /\ waterline' = waterline
       /\ "initialize" \in hist.failed =>
              waterline'.initCalls = waterline.initCalls /\ host'.phase # "started"
       /\ waterline'.teardownCalls # waterline.teardownCalls => host.phase = "started"]_vars

\* the list of models a call supplies has an identity twice
HasTwice(shape) ==
    LET list == IF shape.array # Undefined THEN shape.array[1]
                ELSE OrElse(shape.models, <<>>)
    IN  \E i, j \in 1..Len(list) : i < j /\ list[i] = list[j]

\* the collector has no entry
IsEmpty(col) == \A x \in Maps : col[x] = <<>>

\* the errors internals.dogwater raises for a key that is registered
MergeErrors == {"AdapterRegistered", "ConnectionRegistered", "ModelRegistered"}

\* C16: a fragment whose list of models has an identity twice is refused by
\* the merge with a duplicate-registration error, also when the collector is
\* empty (then for the model), and no scope's record is appended to.  The
\* fragments are those of server.dogwater in every scope and those the plugin
\* registration passes on to server.root.dogwater.
C16_TwiceInOneList ==
    Open =>
        /\ \A s \in Scopes, shape \in DogwaterShapes : HasTwice(shape) =>
               LET r == DogwaterResult(s, shape)
               IN  /\ r.err \in MergeErrors
                   /\ IsEmpty(collector[1]) => r.err = "ModelRegistered"
                   /\ r.realmModels = realmModels
        /\ \A shape \in PluginShapes : HasTwice(shape) =>
               LET r == Dogwater(collector[1], realmModels, Root,
                                 RegistrationConfig(InputOf(calls + 1, shape)))
               IN  /\ r.err \in MergeErrors
                   /\ IsEmpty(collector[1]) => r.err = "ModelRegistered"
                   /\ r.realmModels = realmModels

\* on an empty collector, a list with the same identity twice was refused:
\* its first occurrence is in the collector, no record has it
C16_Witness ==
    /\ last.op = "dogwater" /\ last.err = "ModelRegistered" /\ calls = 2
    /\ Len(hist.models) = 0 /\ Len(hist.adapters) = 0
    /\ collector[1].models = <<[k |-> "user", v |-> <<2, 1>>]>>
    /\ realmModels["p1"] = Undefined
    /\ RecordOf(realmModels, Root) = <<>>

\* C17: the collector is created by the first plugin registration and never
\* replaced or reset afterwards, and however many plugin registrations there
\* are, the ORM instance, the accessors and the two handlers are installed
\* once, so that each start of the host invokes initialize once.
C17_Singleton ==
    /\ [](IF setup THEN hooks = 1 /\ collector # Undefined
                   ELSE hooks = 0 /\ collector = Undefined /\ calls = 0)
    /\ [](waterline.initCalls = host.starts)
    /\ [][setup =>
              /\ setup' /\ collector' # Undefined
              /\ \A x \in Maps \cup {"defaults"} :
                     Keys(collector[1][x]) \subseteq Keys(collector'[1][x])
              /\ collector[1].teardownOnStop # "null" =>
                     collector'[1].teardownOnStop = collector[1].teardownOnStop]_vars

\* the plugin registered twice, by the root and by p1, and the host started:
\* one installation, one initialize, both registrations' models handed over
C17_Witness ==
    /\ host.phase = "initializing" /\ host.starts = 1 /\ calls = 2
    /\ Len(hist.plugin[Root]) = 1 /\ Len(hist.plugin["p1"]) = 1
    /\ hooks = 1 /\ waterline.initCalls = 1
    /\ Len(waterline.loaded) = 2 /\ Len(collector[1].models) = 2

====
